---- MODULE Spec2Model ----
(***************************************************************************)
(* Model of bmks/alloc_test.c: the multi-threaded map/unmap latency        *)
(* benchmark.  The coordinator (main) parses its arguments, allocates one  *)
(* Address Book per thread, runs a map phase and an unmap phase, each      *)
(* spawn -> open gate -> join, and prints the phase totals.                *)
(*                                                                         *)
(* unsigned long / unsigned long long values are 64 bits wide.  Those the  *)
(* program computes from its arguments are kept as four 16-bit limbs,      *)
(* least significant first, so that the arithmetic wraps exactly where the *)
(* C arithmetic wraps.  Counts of cycles are sums of values the program    *)
(* only reads (rdtsc differences, uninitialized objects); they are kept as *)
(* the bag of their terms, each term an unknown that may be any value.     *)
(***************************************************************************)
EXTENDS Integers, Sequences, FiniteSets, Bags, TLC

(* ------------------------------ bounds --------------------------------- *)
\* largest thread count given on the command line
MaxThreads == 2
\* largest operation count given on the command line
MaxAllocs == 2
\* largest thread count times operation count given on the command line
MaxOps == 4
\* arguments given to a wrapper after its own name, at most
MaxWrapArgs == 3
\* times in a row the kernel takes only part of what one flush offers it
MaxShortWrites == 1

(* ------------------------ 64-bit arithmetic ---------------------------- *)
\* one limb holds 16 bits; four limbs make the 64 bits of unsigned long
Limb == 2 ^ 16
NLimbs == 64 \div 16
U64 == [1..NLimbs -> 0..(Limb - 1)]

Zero64 == [k \in 1..NLimbs |-> 0]
ULONG_MAX == [k \in 1..NLimbs |-> Limb - 1]

\* a small natural (< 2^16) as a 64-bit value
FromNat(n) == [k \in 1..NLimbs |-> IF k = 1 THEN n ELSE 0]

IsSmall(a) == \A k \in 2..NLimbs : a[k] = 0

\* the value of a 64-bit number known to be small
ToNat(a) == a[1]

\* carry into limb k of a + b
RECURSIVE CarryAdd(_, _, _)
CarryAdd(a, b, k) ==
    IF k = 1 THEN 0
    ELSE (a[k - 1] + b[k - 1] + CarryAdd(a, b, k - 1)) \div Limb

\* a + b in unsigned 64-bit arithmetic (the carry out of bit 63 is lost)
Add64(a, b) == [k \in 1..NLimbs |-> (a[k] + b[k] + CarryAdd(a, b, k)) % Limb]

\* carry into limb k of a * m + c, for a small multiplier m
RECURSIVE CarryMul(_, _, _, _)
CarryMul(a, m, c, k) ==
    IF k = 1 THEN c
    ELSE (a[k - 1] * m + CarryMul(a, m, c, k - 1)) \div Limb

\* a * m + c in unsigned 64-bit arithmetic, m and c small
MulAdd64(a, m, c) == [k \in 1..NLimbs |-> (a[k] * m + CarryMul(a, m, c, k)) % Limb]

\* TRUE iff a * m + c does not fit 64 bits
MulAddOverflows(a, m, c) == CarryMul(a, m, c, NLimbs + 1) # 0

\* a << s for 0 <= s < 16
Shl64(a, s) == MulAdd64(a, 2 ^ s, 0)

\* 0 - a in unsigned 64-bit arithmetic
Neg64(a) == Add64([k \in 1..NLimbs |-> Limb - 1 - a[k]], FromNat(1))

\* a < b as unsigned 64-bit values
RECURSIVE LtFrom(_, _, _)
LtFrom(a, b, k) ==
    IF k = 0 THEN FALSE
    ELSE IF a[k] # b[k] THEN a[k] < b[k]
    ELSE LtFrom(a, b, k - 1)

Lt64(a, b) == LtFrom(a, b, NLimbs)
Geq64(a, b) == ~Lt64(a, b)

\* a - b in unsigned 64-bit arithmetic
Sub64(a, b) == Add64(a, Neg64(b))

(* ------------------------------ strtoul -------------------------------- *)
Digits == <<"0", "1", "2", "3", "4", "5", "6", "7", "8", "9">>

IsDigit(c) == \E d \in 1..10 : Digits[d] = c
DigitVal(c) == (CHOOSE d \in 1..10 : Digits[d] = c) - 1

\* the characters isspace() holds for in the C locale; "\\v" stands for the
\* vertical tab
Blanks == {" ", "\t", "\n", "\\v", "\f", "\r"}

RECURSIVE SkipSpace(_)
SkipSpace(s) == IF s # <<>> /\ Head(s) \in Blanks THEN SkipSpace(Tail(s)) ELSE s

\* one more digit d read into st = <<value, overflowed>>; st and d are bound
\* by a quantifier so that each is evaluated once
ReadDigit(st, d) ==
    CHOOSE r \in {<<MulAdd64(x[1], 10, v), x[2] \/ MulAddOverflows(x[1], 10, v)>> :
                     x \in {st}, v \in {d}} : TRUE

\* the digits of s read from the left into st = <<value, overflowed>>
RECURSIVE ParseDigits(_, _)
ParseDigits(s, st) ==
    IF s = <<>> \/ ~IsDigit(Head(s)) THEN st
    ELSE ParseDigits(Tail(s), ReadDigit(st, DigitVal(Head(s))))

\* strtoul(s, NULL, 10): leading blanks, an optional sign, then the longest
\* run of digits; no digits gives 0, a value over ULONG_MAX gives ULONG_MAX
strtoul(s) ==
    LET s1 == SkipSpace(s)
        neg == s1 # <<>> /\ Head(s1) = "-"
        s2 == IF s1 # <<>> /\ Head(s1) \in {"+", "-"} THEN Tail(s1) ELSE s1
        r == ParseDigits(s2, <<Zero64, FALSE>>)
    IN  IF r[2] THEN ULONG_MAX
        ELSE IF neg THEN Neg64(r[1])
        ELSE r[1]

\* the decimal numeral of a natural
RECURSIVE Numeral(_)
Numeral(n) ==
    IF n < 10 THEN <<Digits[n + 1]>>
    ELSE Append(Numeral(n \div 10), Digits[(n % 10) + 1])

(* --------------------------- program constants ------------------------- *)
PAGE_SHIFT == 12

\* mmap's failure value, (void *) -1
MAP_FAILED == 0 - 1

\* an address that is not null, not MAP_FAILED and not in any mapping, such
\* as 0xbebebebebebebebe
WildAddr == 0 - 2

(* ----------------------------- cycle counts ---------------------------- *)
\* A count of cycles is a sum of 64-bit values that the program does not
\* choose: what two rdtsc samples were apart, what an object held that was
\* never written. Such a value is an unknown of the run, named by where it
\* is read, and may be any of the 2^64 values. A count is kept as the bag
\* of its terms; it stands for their sum in unsigned 64-bit arithmetic,
\* whatever the unknowns are, so two counts with the same terms are equal
\* in every run
NoCycles == EmptyBag

\* the count that is one unknown
Unknown(u) == SetToBag({u})

\* a + b of two counts, as += and + of unsigned long long do it
Plus(a, b) == a (+) b

\* what the uninitialized unsigned long long of `who`, declared at `line`,
\* holds when it is first read: any value, whatever the build leaves in the
\* register or the stack slot
Uninit64(who, line) == Unknown(<<"uninit", who, line>>)

\* end - start of the two rdtsc samples around operation i of worker id:
\* any number of cycles
Elapsed(id, i) == Unknown(<<"cycles", id, i>>)

(* ------------------------------- inputs -------------------------------- *)
\* 2^52 pages: the shift by PAGE_SHIFT moves the only set bit out of the word
BigPages == <<"4", "5", "0", "3", "5", "9", "9", "6", "2", "7", "3", "7", "0", "4", "9", "6">>

SizeArgs == {Numeral(0), Numeral(1), BigPages}
\* an operation count given alone, after a blank that strtoul skips
AllocArgs == {<<"\t">> \o Numeral(n) : n \in 0..MaxAllocs}
\* the operation counts and thread counts given together
Work == {w \in (0..MaxAllocs) \X (0..MaxThreads) : w[1] * w[2] <= MaxOps}
HugeArgs == {<<"h">>}
ProgName == <<"a">>

\* the argument vectors main is started with, argv[0] first
ArgVectors ==
    {<<ProgName>>}
    \cup {<<ProgName, s>> : s \in SizeArgs}
    \cup {<<ProgName, s, a>> : s \in SizeArgs, a \in AllocArgs}
    \cup {<<ProgName, s, Numeral(a), Numeral(t)>> : s \in SizeArgs, <<a, t>> \in Work}
    \cup {<<ProgName, s, Numeral(a), Numeral(t), h>> :
            s \in SizeArgs, <<a, t>> \in Work, h \in HugeArgs}

(* -------------------------------- state -------------------------------- *)
VARIABLES
    argv,               \* the argument vector, argv[0] at index 1
    pc,                 \* where main is
    size,               \* global size
    num_allocations,    \* global num_allocations
    num_threads,        \* global num_threads
    flags,              \* global flags, as the set of its bits
    begin,              \* the gate
    ci,                 \* main's loop index i
    addr,               \* the Address Books: addr[t][i] is one slot
    threads,            \* main's array of thread handles
    thr,                \* every thread ever created, by <<phase, index>>
    total_map_time,     \* main's total_map_time
    total_unmap_time,   \* main's total_unmap_time
    mapped,             \* the regions the kernel has mapped for the process
    ncfail,             \* pthread_create calls that have failed so far
    freed,              \* the heap objects main has freed, in order
    out,                \* what main has printed
    rc,                 \* <<status>> once the process has ended
    join_time,          \* main's map_time / unmap_time: <<>> until written
    nulls               \* the heap objects of lines 84-88 malloc gave no memory for

\* the state of alloc_test
bvars == <<argv, pc, size, num_allocations, num_threads, flags, begin, ci, addr,
           threads, thr, total_map_time, total_unmap_time, mapped, ncfail,
           freed, out, rc, join_time, nulls>>

\* the state of a run of fbmm_wrapper or fom_wrapper
VARIABLES
    wname,              \* the wrapper that runs
    wargv,              \* its argument vector, argv[0] at index 1
    wpc,                \* where its main is
    wpid,               \* the process id getpid returns
    wfile,              \* the stream fopen returned, with its buffer
    wwrites,            \* the writes the kernel received, in order
    werr,               \* what the wrapper printed on stderr
    wrc,                \* <<status>> once main has returned
    wimage              \* <<the program and arguments>> once execv succeeded

wvars == <<wname, wargv, wpc, wpid, wfile, wwrites, werr, wrc, wimage>>

vars == <<bvars, wvars>>

argc == Len(argv)

\* argv[k] of the C program
Arg(k) == argv[k + 1]

\* a slot of an Address Book: malloc leaves it unset
EmptySlot == [set |-> FALSE, val |-> 0]

\* the content of a pthread_t that pthread_create never filled in
NoThread == <<"garbage", 0>>

\* a thread that does not exist
Absent == [pc |-> "none", ptr |-> 0, i |-> 0, time |-> NoCycles, cyc |-> NoCycles,
           ops |-> <<>>, printed |-> FALSE]

\* main's loop condition i < n, the int i converted to unsigned long
Below(i, n) == Lt64(FromNat(i), n)

Running == pc \notin {"exited", "crashed"}

Alive(id) == thr[id].pc \in {"wait", "loop"}

Line(text, val) == [fd |-> "stdout", text |-> text, val |-> val]

\* no stream: fopen has not been called, or it returned NULL
NoFile == [path |-> <<>>, open |-> FALSE, size |-> 0, buf |-> <<>>, printed |-> <<>>]

\* no wrapper runs
NoWrapper ==
    /\ wname = "none"
    /\ wargv = <<>>
    /\ wpc = "none"
    /\ wpid = 0
    /\ wfile = NoFile
    /\ wwrites = <<>>
    /\ werr = <<>>
    /\ wrc = <<>>
    /\ wimage = <<>>

Init ==
    /\ argv \in ArgVectors
    /\ pc = "start"
    /\ size = Zero64
    /\ num_allocations = FromNat(1)
    /\ num_threads = FromNat(1)
    /\ flags = {"MAP_ANONYMOUS", "MAP_PRIVATE"}
    /\ begin = 0
    /\ ci = 0
    /\ addr = <<>>
    /\ threads = <<>>
    /\ thr = <<>>
    /\ total_map_time = NoCycles
    /\ total_unmap_time = NoCycles
    /\ mapped = {}
    /\ ncfail = 0
    /\ freed = <<>>
    /\ out = <<>>
    /\ rc = <<>>
    /\ join_time = <<>>
    /\ nulls = {}
    /\ NoWrapper

(* -------------------------------- main --------------------------------- *)
\* lines 67-70: no size argument
Main_Usage ==
    /\ pc = "start"
    /\ argc < 2
    /\ out' = Append(out, Line("Missing size in number of pages", NoCycles))
    /\ rc' = <<0 - 1>>
    /\ pc' = "exited"
    /\ UNCHANGED <<wvars, nulls, join_time, argv, size, num_allocations, num_threads, flags, begin, ci,
                   addr, threads, thr, total_map_time, total_unmap_time,
                   mapped, ncfail, freed>>

\* lines 71-82: the configuration
Main_ParseArgs ==
    /\ pc = "start"
    /\ ~(argc < 2)
    /\ num_allocations' = IF argc >= 3 THEN strtoul(Arg(2)) ELSE num_allocations
    /\ num_threads' = IF argc >= 4 THEN strtoul(Arg(3)) ELSE num_threads
    /\ flags' = IF argc >= 5 THEN flags \cup {"MAP_HUGETLB"} ELSE flags
    /\ \E pages \in {strtoul(Arg(1))} : size' = Shl64(pages, PAGE_SHIFT)
    /\ pc' = "alloc"
    /\ UNCHANGED <<wvars, nulls, join_time, argv, begin, ci, addr, threads, thr, total_map_time,
                   total_unmap_time, mapped, freed, out, rc, ncfail>>

\* the heap objects main asks malloc for at lines 84-88: the array of
\* books, the array of handles and one book for each of nt threads
HeapObjects(nt) ==
    {<<"addr", 0>>, <<"threads", 0>>} \cup {<<"book", t>> : t \in 0..(nt - 1)}

\* lines 84-88: the Address Books and the handle array. No result of malloc
\* is looked at, and any of them may be NULL. With no array of books the
\* store to addr[0] at line 87 ends the process (SIGSEGV); a book or a
\* handle array that is missing is not touched before the threads are
\* created
Main_Alloc ==
    /\ pc = "alloc"
    /\ IsSmall(num_threads) /\ IsSmall(num_allocations)
    /\ LET nt == ToNat(num_threads)
           na == ToNat(num_allocations)
       IN  /\ addr' = [t \in 0..(nt - 1) |-> [i \in 0..(na - 1) |-> EmptySlot]]
           /\ threads' = [t \in 0..(nt - 1) |-> NoThread]
           /\ thr' = [id \in {"map", "unmap"} \X (0..(nt - 1)) |-> Absent]
           /\ \E failed \in SUBSET HeapObjects(nt) :
                /\ nulls' = failed
                /\ pc' = IF <<"addr", 0>> \in failed /\ nt > 0
                         THEN "crashed" ELSE "map_create"
    /\ ci' = 0
    /\ UNCHANGED <<wvars, join_time, argv, size, num_allocations, num_threads, flags, begin,
                   total_map_time, total_unmap_time, mapped, freed, out, rc, ncfail>>

\* a slip: every worker is handed the first Address Book
BookArg_First(t) == 0

\* the Address Book handed to worker t: addr[i] at lines 92 and 109
BookArg(t) == t

\* a thread just created: it spins on the gate; its accumulator is not set
Fresh(book, g) == [pc |-> "wait", ptr |-> book, i |-> 0, time |-> g,
                   cyc |-> NoCycles, ops |-> <<>>, printed |-> FALSE]

\* the handle a failed pthread_create wrote: the place of the thread that
\* was not started, which is free for the next thread
Unstarted == <<"unstarted", 0>>

\* the line that declares the accumulator of a worker of the phase: map_time
\* at line 25, unmap_time at line 45; neither is initialized
AccumulatorLine(phase) == IF phase = "map" THEN 25 ELSE 45

\* malloc gave no array of handles: threads is NULL
NoHandles == <<"threads", 0>> \in nulls

\* the handles in threads[] of threads that were joined: the descriptor such
\* a handle names is free, and pthread_create may give it to the next thread
Stale ==
    {threads[k] : k \in {j \in DOMAIN threads :
                            /\ j # ci
                            /\ threads[j] \in DOMAIN thr
                            /\ thr[threads[j]].pc = "joined"}}

\* pthread_create succeeded for <<phase, ci>>: the thread takes the place a
\* failed call before it had prepared, so the handles those calls wrote
\* are now equal to its handle; it may take the descriptor of a joined
\* thread too, and a handle of that thread left in threads[] is then
\* equal to its handle
Created(phase) ==
    /\ ~NoHandles
    /\ \E reused \in {Unstarted} \cup Stale :
         threads' = [k \in DOMAIN threads |->
                       IF k = ci \/ threads[k] = Unstarted \/ threads[k] = reused
                       THEN <<phase, ci>> ELSE threads[k]]
    /\ thr' = [thr EXCEPT ![<<phase, ci>>] =
                 Fresh(BookArg(ci), Uninit64(<<phase, ci>>, AccumulatorLine(phase)))]
    /\ ncfail' = ncfail
    /\ ci' = ci + 1
    /\ pc' = pc

\* pthread_create failed (EAGAIN): the content of the handle is unspecified;
\* it is left as it was, or it names the thread that was not started
NotCreated(phase) ==
    /\ ncfail' = ncfail + 1
    /\ \/ threads' = threads
       \/ ~NoHandles /\ threads' = [threads EXCEPT ![ci] = Unstarted]
    /\ thr' = thr
    /\ ci' = ci + 1
    /\ pc' = pc

\* pthread_create stores the handle through &threads[i]: with threads NULL
\* the store ends the process (SIGSEGV) before any thread runs
CreateCrashes ==
    /\ NoHandles
    /\ pc' = "crashed"
    /\ UNCHANGED <<threads, thr, ncfail, ci>>

\* lines 91-93: one turn of the loop that creates the map workers; the
\* result of pthread_create is not looked at
Main_MapCreate ==
    /\ pc = "map_create"
    /\ Below(ci, num_threads)
    /\ (Created("map") \/ NotCreated("map") \/ CreateCrashes)
    /\ UNCHANGED <<wvars, nulls, join_time, argv, size, num_allocations, num_threads, flags, begin,
                   addr, total_map_time, total_unmap_time, mapped, freed,
                   out, rc>>

\* a slip: the loop that joins the map workers is left out
Main_MapOpen_SkipsJoin ==
    /\ pc = "map_create"
    /\ ~Below(ci, num_threads)
    /\ out' = Append(out, Line("Started map threads", NoCycles))
    /\ begin' = 1
    /\ ci' = 0
    /\ pc' = "unmap_reset"
    /\ UNCHANGED <<wvars, nulls, join_time, argv, size, num_allocations, num_threads, flags, addr,
                   threads, thr, total_map_time, total_unmap_time, mapped,
                   freed, rc, ncfail>>

\* lines 95-96: the map gate opens
Main_MapOpen ==
    /\ pc = "map_create"
    /\ ~Below(ci, num_threads)
    /\ out' = Append(out, Line("Started map threads", NoCycles))
    /\ begin' = 1
    /\ ci' = 0
    /\ pc' = "map_join"
    /\ UNCHANGED <<wvars, nulls, join_time, argv, size, num_allocations, num_threads, flags, addr,
                   threads, thr, total_map_time, total_unmap_time, mapped,
                   freed, rc, ncfail>>

\* a handle pthread_join can wait on: a thread that exists and was not joined
Joinable(h) == h \in DOMAIN thr /\ thr[h].pc \in {"wait", "loop", "exit"}

\* pthread_join(threads[ci], &t) on a thread that has returned: t is its
\* return value; the call blocks while the thread still runs. The handle
\* is the one its own pthread_create wrote, or one a failed call wrote
\* that a later thread made its own
Joined(total) ==
    LET h == threads[ci]
    IN  /\ ~NoHandles
        /\ Joinable(h)
        /\ thr[h].pc = "exit"
        /\ join_time' = <<thr[h].time>>
        /\ total' = Plus(total, thr[h].time)
        /\ thr' = [thr EXCEPT ![h].pc = "joined"]
        /\ ci' = ci + 1
        /\ pc' = pc

\* what main's map_time (declared at line 99) or unmap_time (line 116) may
\* hold in turn ci of the loop when pthread_join has not written it: any
\* value, and so what an earlier turn or the other loop left in the object
Leftover(line) ==
    {Uninit64(<<"main", ci>>, line)} \cup {join_time[k] : k \in DOMAIN join_time}

\* what pthread_join may find as the result of a thread that never ran
NeverRan == {NoCycles}

\* pthread_join on a handle that names no joinable thread (never filled in,
\* written by a failed pthread_create and taken by no thread since, or
\* already joined, under this handle or an equal one) is
\* undefined: the call may fail, and then t is what the object held, it may
\* return 0 with the empty result of the thread that never ran in t, or the
\* process may die in it
JoinFails(total, line) ==
    /\ ~NoHandles
    /\ ~Joinable(threads[ci])
    /\ \E g \in Leftover(line) \cup NeverRan :
         /\ join_time' = <<g>>
         /\ total' = Plus(total, g)
    /\ ci' = ci + 1
    /\ UNCHANGED <<pc, thr>>

\* the process dies in the call, or before it in the read of threads[i]
\* when threads is NULL (SIGSEGV)
JoinCrashes(total) ==
    /\ NoHandles \/ ~Joinable(threads[ci])
    /\ pc' = "crashed"
    /\ UNCHANGED <<ci, thr, total, join_time>>

\* lines 98-103: one turn of the loop that joins the map workers
Main_MapJoin ==
    /\ pc = "map_join"
    /\ Below(ci, num_threads)
    /\ \/ Joined(total_map_time)
       \/ JoinFails(total_map_time, 99)
       \/ JoinCrashes(total_map_time)
    /\ UNCHANGED <<wvars, nulls, argv, size, num_allocations, num_threads, flags, begin, addr,
                   threads, total_unmap_time, mapped, freed, out, rc, ncfail>>

\* line 104: the map total
Main_MapTotal ==
    /\ pc = "map_join"
    /\ ~Below(ci, num_threads)
    /\ out' = Append(out, Line("Total map time", total_map_time))
    /\ pc' = "unmap_reset"
    /\ UNCHANGED <<wvars, nulls, join_time, argv, size, num_allocations, num_threads, flags, begin, ci,
                   addr, threads, thr, total_map_time, total_unmap_time, mapped,
                   freed, rc, ncfail>>

\* a slip: the gate is left open between the phases
Main_GateReset_LeftOpen ==
    /\ pc = "unmap_reset"
    /\ ci' = 0
    /\ pc' = "unmap_create"
    /\ UNCHANGED <<wvars, nulls, join_time, argv, size, num_allocations, num_threads, flags, begin, addr,
                   threads, thr, total_map_time, total_unmap_time, mapped,
                   ncfail, freed, out, rc>>

\* line 107: the gate closes again
Main_GateReset ==
    /\ pc = "unmap_reset"
    /\ begin' = 0
    /\ ci' = 0
    /\ pc' = "unmap_create"
    /\ UNCHANGED <<wvars, nulls, join_time, argv, size, num_allocations, num_threads, flags, addr,
                   threads, thr, total_map_time, total_unmap_time, mapped,
                   freed, out, rc, ncfail>>

\* lines 108-110: one turn of the loop that creates the unmap workers
Main_UnmapCreate ==
    /\ pc = "unmap_create"
    /\ Below(ci, num_threads)
    /\ (Created("unmap") \/ NotCreated("unmap") \/ CreateCrashes)
    /\ UNCHANGED <<wvars, nulls, join_time, argv, size, num_allocations, num_threads, flags, begin,
                   addr, total_map_time, total_unmap_time, mapped, freed,
                   out, rc>>

\* lines 112-113: the unmap gate opens
Main_UnmapOpen ==
    /\ pc = "unmap_create"
    /\ ~Below(ci, num_threads)
    /\ out' = Append(out, Line("Started unmap threads", NoCycles))
    /\ begin' = 1
    /\ ci' = 0
    /\ pc' = "unmap_join"
    /\ UNCHANGED <<wvars, nulls, join_time, argv, size, num_allocations, num_threads, flags, addr,
                   threads, thr, total_map_time, total_unmap_time, mapped,
                   freed, rc, ncfail>>

\* lines 115-120: one turn of the loop that joins the unmap workers
Main_UnmapJoin ==
    /\ pc = "unmap_join"
    /\ Below(ci, num_threads)
    /\ \/ Joined(total_unmap_time)
       \/ JoinFails(total_unmap_time, 116)
       \/ JoinCrashes(total_unmap_time)
    /\ UNCHANGED <<wvars, nulls, argv, size, num_allocations, num_threads, flags, begin, addr,
                   threads, total_map_time, mapped, freed, out, rc, ncfail>>

\* line 121: the unmap total
Main_UnmapTotal ==
    /\ pc = "unmap_join"
    /\ ~Below(ci, num_threads)
    /\ out' = Append(out, Line("Total unmap time", total_unmap_time))
    /\ ci' = 0
    /\ pc' = "free"
    /\ UNCHANGED <<wvars, nulls, join_time, argv, size, num_allocations, num_threads, flags, begin,
                   addr, threads, thr, total_map_time, total_unmap_time, mapped,
                   freed, rc, ncfail>>

\* a slip: the index is left out and the first book is freed again
Main_FreeBook_First ==
    /\ pc = "free"
    /\ Below(ci, num_threads)
    /\ freed' = Append(freed, <<"book", 0>>)
    /\ ci' = ci + 1
    /\ UNCHANGED <<wvars, nulls, join_time, argv, pc, size, num_allocations, num_threads, flags, begin,
                   addr, threads, thr, total_map_time, total_unmap_time, mapped,
                   out, rc, ncfail>>

\* lines 124-125: one Address Book is freed
Main_FreeBook ==
    /\ pc = "free"
    /\ Below(ci, num_threads)
    /\ freed' = Append(freed, <<"book", ci>>)
    /\ ci' = ci + 1
    /\ UNCHANGED <<wvars, nulls, join_time, argv, pc, size, num_allocations, num_threads, flags, begin,
                   addr, threads, thr, total_map_time, total_unmap_time, mapped,
                   out, rc, ncfail>>

\* lines 126-127: the array of books is freed and main returns 0
Main_Return ==
    /\ pc = "free"
    /\ ~Below(ci, num_threads)
    /\ freed' = Append(freed, <<"addr", 0>>)
    /\ rc' = <<0>>
    /\ pc' = "exited"
    /\ UNCHANGED <<wvars, nulls, join_time, argv, size, num_allocations, num_threads, flags, begin, ci,
                   addr, threads, thr, total_map_time, total_unmap_time, mapped,
                   out, ncfail>>

(* ------------------------------- kernel -------------------------------- *)
\* the region a successful mmap returns: the first one that is not mapped
FreshRegion(t, i) ==
    LET base == t * ToNat(num_allocations) + i + 1
    IN  CHOOSE k \in base..(base + Cardinality(mapped)) :
            k \notin mapped /\ \A j \in base..(k - 1) : j \in mapped

\* a huge page is 2^21 bytes
HUGE_PAGE_SHIFT == 21

\* len is a whole number of huge pages: its low HUGE_PAGE_SHIFT bits are 0
WholeHugePages(len) ==
    len[1] = 0 /\ len[2] % (2 ^ (HUGE_PAGE_SHIFT - 16)) = 0

\* what mmap(NULL, len, ..., flags, -1, 0) may return: a length of 0 is
\* refused (EINVAL); any other call gives a region or is refused, for lack
\* of memory or, with MAP_HUGETLB, of huge pages
MmapResults(len, t, i) ==
    IF len = Zero64 THEN {MAP_FAILED}
    ELSE {FreshRegion(t, i), MAP_FAILED}

\* the mappings after munmap(h, len): only a mapped region of a length
\* other than 0 is released, and a region of huge pages only by a length of
\* whole huge pages (EINVAL otherwise)
AfterMunmap(h, len) ==
    IF /\ h \in mapped
       /\ len # Zero64
       /\ "MAP_HUGETLB" \in flags => WholeHugePages(len)
    THEN mapped \ {h} ELSE mapped

\* what reading a slot gives: its value; a slot that was never written holds
\* whatever malloc left there: a null pointer, the address of a mapping or
\* any other address
SlotValues(s) ==
    IF s.set THEN {s.val}
    ELSE {0, WildAddr} \cup {r \in mapped : \A q \in mapped : r <= q}

(* ------------------------------- workers ------------------------------- *)
\* the length passed to mmap and munmap (lines 32 and 52)
RequestLen == size

\* a slip: the shift of the page count to bytes is done by each worker
thread_start_ShiftsSize(id) ==
    /\ Running
    /\ id \in DOMAIN thr
    /\ thr[id].pc = "wait"
    /\ begin # 0
    /\ thr' = [thr EXCEPT ![id].pc = "loop", ![id].i = 0]
    /\ size' = Shl64(size, PAGE_SHIFT)
    /\ UNCHANGED <<wvars, nulls, join_time, argv, pc, num_allocations, num_threads, flags, begin,
                   ci, addr, threads, total_map_time, total_unmap_time, mapped,
                   freed, out, rc, ncfail>>

\* a slip: the loop starts at index 1
thread_start_FromOne(id) ==
    /\ Running
    /\ id \in DOMAIN thr
    /\ thr[id].pc = "wait"
    /\ begin # 0
    /\ thr' = [thr EXCEPT ![id].pc = "loop", ![id].i = 1]
    /\ UNCHANGED <<wvars, nulls, join_time, argv, pc, size, num_allocations, num_threads, flags, begin,
                   ci, addr, threads, total_map_time, total_unmap_time, mapped,
                   freed, out, rc, ncfail>>

\* lines 28 and 48: the worker leaves its busy-wait once it reads begin != 0
thread_start(id) ==
    /\ Running
    /\ id \in DOMAIN thr
    /\ thr[id].pc = "wait"
    /\ begin # 0
    /\ thr' = [thr EXCEPT ![id].pc = "loop", ![id].i = 0]
    /\ UNCHANGED <<wvars, nulls, join_time, argv, pc, size, num_allocations, num_threads, flags, begin,
                   ci, addr, threads, total_map_time, total_unmap_time, mapped,
                   freed, out, rc, ncfail>>

\* the book handed to the worker is NULL: malloc gave none at line 87
NoBook(w) == <<"book", w.ptr>> \in nulls

\* a slip: a failed mmap ends the loop, and its cycles are not counted
map_thread_op_StopsOnFailure(t) ==
    LET id == <<"map", t>>
    IN  /\ Running
        /\ id \in DOMAIN thr
        /\ thr[id].pc = "loop"
        /\ Below(thr[id].i, num_allocations)
        /\ \E d \in {Elapsed(id, thr[id].i)}, r \in MmapResults(RequestLen, t, thr[id].i) :
             LET w == thr[id]
                 ok == r # MAP_FAILED
             IN  /\ mapped' = IF ok THEN mapped \cup {r} ELSE mapped
                 /\ IF NoBook(w)
                    THEN /\ pc' = "crashed"
                         /\ UNCHANGED <<addr, thr>>
                    ELSE /\ pc' = pc
                         /\ addr' = [addr EXCEPT ![w.ptr][w.i] = [set |-> TRUE, val |-> r]]
                         /\ thr' = [thr EXCEPT ![id] =
                              [w EXCEPT !.i = IF ok THEN w.i + 1
                                              ELSE ToNat(num_allocations),
                                        !.time = IF ok THEN Plus(w.time, d)
                                                 ELSE w.time,
                                        !.cyc = Plus(w.cyc, d),
                                        !.ops = Append(w.ops,
                                           [i |-> w.i, len |-> RequestLen, h |-> r, d |-> d])]]
        /\ UNCHANGED <<wvars, nulls, join_time, argv, size, num_allocations, num_threads, flags,
                       begin, ci, threads, total_map_time, total_unmap_time,
                       freed, out, rc, ncfail>>

\* lines 30-37: one map operation. The result of mmap is stored through the
\* book: with no book the store ends the process (SIGSEGV), after the mmap
map_thread_op(t) ==
    LET id == <<"map", t>>
    IN  /\ Running
        /\ id \in DOMAIN thr
        /\ thr[id].pc = "loop"
        /\ Below(thr[id].i, num_allocations)
        /\ \E d \in {Elapsed(id, thr[id].i)}, r \in MmapResults(RequestLen, t, thr[id].i) :
             LET w == thr[id]
             IN  /\ mapped' = IF r # MAP_FAILED THEN mapped \cup {r} ELSE mapped
                 /\ IF NoBook(w)
                    THEN /\ pc' = "crashed"
                         /\ UNCHANGED <<addr, thr>>
                    ELSE /\ pc' = pc
                         /\ addr' = [addr EXCEPT ![w.ptr][w.i] = [set |-> TRUE, val |-> r]]
                         /\ thr' = [thr EXCEPT ![id] =
                              [w EXCEPT !.i = w.i + 1,
                                        !.time = Plus(w.time, d),
                                        !.cyc = Plus(w.cyc, d),
                                        !.ops = Append(w.ops,
                                           [i |-> w.i, len |-> RequestLen, h |-> r, d |-> d])]]
        /\ UNCHANGED <<wvars, nulls, join_time, argv, size, num_allocations, num_threads, flags,
                       begin, ci, threads, total_map_time, total_unmap_time,
                       freed, out, rc, ncfail>>

\* a variant: a slot holding MAP_FAILED is passed over without a munmap
unmap_thread_op_SkipsSentinel(t) ==
    LET id == <<"unmap", t>>
    IN  /\ Running
        /\ id \in DOMAIN thr
        /\ thr[id].pc = "loop"
        /\ Below(thr[id].i, num_allocations)
        /\ IF NoBook(thr[id])
           THEN /\ pc' = "crashed"
                /\ UNCHANGED <<mapped, thr>>
           ELSE /\ pc' = pc
                /\ \E d \in {Elapsed(id, thr[id].i)},
                      h \in SlotValues(addr[thr[id].ptr][thr[id].i]) :
                     LET w == thr[id]
                     IN  IF h = MAP_FAILED
                         THEN /\ mapped' = mapped
                              /\ thr' = [thr EXCEPT ![id].i = w.i + 1]
                         ELSE /\ mapped' = AfterMunmap(h, RequestLen)
                              /\ thr' = [thr EXCEPT ![id] =
                                   [w EXCEPT !.i = w.i + 1,
                                             !.time = Plus(w.time, d),
                                             !.cyc = Plus(w.cyc, d),
                                             !.ops = Append(w.ops,
                                                [i |-> w.i, len |-> RequestLen,
                                                 h |-> h, d |-> d])]]
        /\ UNCHANGED <<wvars, nulls, join_time, argv, size, num_allocations, num_threads, flags,
                       begin, ci, addr, threads, total_map_time,
                       total_unmap_time, freed, out, rc, ncfail>>

\* lines 50-56: one unmap operation. The handle is read through the book:
\* with no book the read of addr[i] ends the process (SIGSEGV), before the
\* munmap
unmap_thread_op(t) ==
    LET id == <<"unmap", t>>
    IN  /\ Running
        /\ id \in DOMAIN thr
        /\ thr[id].pc = "loop"
        /\ Below(thr[id].i, num_allocations)
        /\ IF NoBook(thr[id])
           THEN /\ pc' = "crashed"
                /\ UNCHANGED <<mapped, thr>>
           ELSE /\ pc' = pc
                /\ \E d \in {Elapsed(id, thr[id].i)},
                      h \in SlotValues(addr[thr[id].ptr][thr[id].i]) :
                     LET w == thr[id]
                     IN  /\ mapped' = AfterMunmap(h, RequestLen)
                         /\ thr' = [thr EXCEPT ![id] =
                              [w EXCEPT !.i = w.i + 1,
                                        !.time = Plus(w.time, d),
                                        !.cyc = Plus(w.cyc, d),
                                        !.ops = Append(w.ops,
                                           [i |-> w.i, len |-> RequestLen, h |-> h, d |-> d])]]
        /\ UNCHANGED <<wvars, nulls, join_time, argv, size, num_allocations, num_threads, flags,
                       begin, ci, addr, threads, total_map_time,
                       total_unmap_time, freed, out, rc, ncfail>>

\* lines 38-40 and 57-59: the loop is over; the worker prints its
\* accumulator and returns it
thread_return(id) ==
    /\ Running
    /\ id \in DOMAIN thr
    /\ thr[id].pc = "loop"
    /\ ~Below(thr[id].i, num_allocations)
    /\ thr' = [thr EXCEPT ![id].pc = "exit", ![id].printed = TRUE]
    /\ UNCHANGED <<wvars, nulls, join_time, argv, pc, size, num_allocations, num_threads, flags, begin,
                   ci, addr, threads, total_map_time, total_unmap_time, mapped,
                   freed, out, rc, ncfail>>

map_thread(t) ==
    \/ thread_start(<<"map", t>>)
    \/ map_thread_op(t)
    \/ thread_return(<<"map", t>>)

unmap_thread(t) ==
    \/ thread_start(<<"unmap", t>>)
    \/ unmap_thread_op(t)
    \/ thread_return(<<"unmap", t>>)

(* ------------------------------ wrappers ------------------------------- *)
\* the size of the buffer stdio gives a stream when the file does not say
BUFSIZ == 8192

\* a string too long for the buffer of a stream on most files
LongWord == [k \in 1..(BUFSIZ \div 2 + 905) |-> "x"]

\* strings given on the command line: the empty string, a directory, a
\* program
Words == {<<>>, <<"/", "d">>, <<"/", "p">>}

\* process ids, of one and of two digits
Pids == {7, 12}

WrapperNames == {"fbmm_wrapper", "fom_wrapper"}

\* the argument vectors a wrapper is started with, argv[0] first: up to
\* MaxWrapArgs strings, the first of them a short one or the long one
WrapperArgVectors(name) ==
    {<<<<name>>>> \o a : a \in UNION {[1..k -> Words] : k \in 0..MaxWrapArgs}}
    \cup {<<<<name>>, LongWord>> \o a :
             a \in UNION {[1..k -> Words] : k \in 0..(MaxWrapArgs - 1)}}

wargc == Len(wargv)

\* argv[k] of the wrapper
WArg(k) == wargv[k + 1]

\* &argv[k]: the vector from argv[k] on
WArgsFrom(k) == SubSeq(wargv, k + 1, Len(wargv))

\* the conversions %d and %s of printf
Format_d(n) == Numeral(n)
Format_s(str) == str

\* fbmm_wrapper.c line 32: "/proc/%d/fbmm_mnt_dir"
FbmmPidFilename(pid) == <<"/proc/">> \o Format_d(pid) \o <<"/fbmm_mnt_dir">>

\* fom_wrapper.c line 10
fom_pid_filename == <<"/sys/kernel/mm/fom/pid">>

\* a line on stderr
ErrLine(text, arg) == [fd |-> "stderr", text |-> text, arg |-> arg]

WrapperRunning(name) == wname = name /\ wpc \notin {"exited", "replaced"}

\* return status from main, after a message on stderr
WrapperFails(text, arg, status) ==
    /\ werr' = Append(werr, ErrLine(text, arg))
    /\ wrc' = <<status>>
    /\ wpc' = "exited"

\* fopen(path, "w"): a stream with an empty buffer, or NULL
FopenResults(path) ==
    {[path |-> path, open |-> TRUE, size |-> 0, buf |-> <<>>, printed |-> <<>>], NoFile}

\* st_blksize of a file, as its file system reports it: a power of two, 1024
\* on procfs, the page size on most others; every size of BUFSIZ or more
\* gives the same buffer
BlockSizes == {2 ^ k : k \in 9..13}

\* the size of the buffer a stream may get (_IO_file_doallocate): st_blksize
\* of the file when that is under BUFSIZ, else BUFSIZ; when malloc gives no
\* buffer the stream uses the one byte it holds itself
BufSizes == {1} \cup {IF b < BUFSIZ THEN b ELSE BUFSIZ : b \in BlockSizes}

\* the size of the buffer of f after the output of text: the buffer is
\* allocated at the first output that has a character
Allocated(f, text) ==
    IF text = <<>> \/ f.size # 0 THEN {f.size} ELSE BufSizes

\* fprintf(file, ...) on a stream fresh from fopen, as both wrappers use it
\* (_IO_new_file_xsputn). The leading whole blocks of the text do not pass
\* through the buffer, they are written to the file at once; under a buffer
\* of less than 128 bytes all of the text is
Direct(text, bs) ==
    SubSeq(text, 1, Len(text) - (IF bs >= 128 THEN Len(text) % bs ELSE 0))

\* what follows the whole blocks
Remainder(text, bs) == SubSeq(text, Len(Direct(text, bs)) + 1, Len(text))

\* the calls write(fd, ...) stdio makes to get a chunk to the file
\* (_IO_new_file_write): the kernel takes all it is offered, or it takes
\* part, and then stdio offers it the rest, or it refuses (-1), which ends
\* the output. A call is recorded with the chunk, the number of calls before
\* it that took part of the chunk, whatever part that was, and its result
WriteCalls(path, chunk) ==
    IF chunk = <<>> THEN {<<>>}
    ELSE {[k \in 1..(n + 1) |->
             [path |-> path, chunk |-> chunk, after |-> k - 1,
              ret |-> IF k <= n THEN "part" ELSE last]] :
            n \in {m \in 0..MaxShortWrites : m < Len(chunk)},
            last \in {"all", "error"}}

\* the calls got the whole chunk to the file
Delivered(calls) == calls = <<>> \/ calls[Len(calls)].ret = "all"

\* the calls fprintf(file, ...) may make under a buffer of bs bytes
WrittenThrough(f, text, bs) == WriteCalls(f.path, Direct(text, bs))

\* the stream after fprintf(file, ...): the remainder of the text is in the
\* buffer, unless the whole blocks did not all get to the file, which ends
\* the output of the text
Buffered(f, text, bs, calls) ==
    [f EXCEPT !.size = bs,
              !.printed = Append(f.printed, text),
              !.buf = IF Delivered(calls) THEN f.buf \o Remainder(text, bs)
                      ELSE f.buf]

\* the calls fclose(file) may make: what is buffered is written to the
\* file; nothing is written when nothing is buffered
Flushed(f) == WriteCalls(f.path, f.buf)

\* the stream after fclose(file), whatever became of the writes
Closed(f) == [f EXCEPT !.open = FALSE, !.buf = <<>>]

\* execv(path, args) succeeded: the process now runs the target
Replaced(path, args) ==
    /\ wimage' = <<[path |-> path, argv |-> args]>>
    /\ wpc' = "replaced"

\* fbmm_wrapper.c lines 16-19
Fbmm_Usage ==
    /\ WrapperRunning("fbmm_wrapper")
    /\ wpc = "start"
    /\ wargc < 3
    /\ WrapperFails("Usage: fbmm_wrapper <mnt_dir> <program> [args..]", <<>>, 0 - 1)
    /\ UNCHANGED <<bvars, wname, wargv, wpid, wfile, wwrites, wimage>>

\* fbmm_wrapper.c lines 21-25: the buffer for the file name
Fbmm_Malloc ==
    /\ WrapperRunning("fbmm_wrapper")
    /\ wpc = "start"
    /\ ~(wargc < 3)
    /\ \/ wpc' = "open" /\ UNCHANGED <<werr, wrc>>
       \/ WrapperFails("Could not allocate buffer", <<>>, 0 - 1)
    /\ UNCHANGED <<bvars, wname, wargv, wpid, wfile, wwrites, wimage>>

\* fbmm_wrapper.c lines 27-38: the file /proc/<pid>/fbmm_mnt_dir is opened
Fbmm_Open ==
    /\ WrapperRunning("fbmm_wrapper")
    /\ wpc = "open"
    /\ \E f \in FopenResults(FbmmPidFilename(wpid)) :
         /\ wfile' = f
         /\ IF f = NoFile
            THEN WrapperFails("Could not open", FbmmPidFilename(wpid), 0 - 1)
            ELSE wpc' = "write" /\ UNCHANGED <<werr, wrc>>
    /\ UNCHANGED <<bvars, wname, wargv, wpid, wwrites, wimage>>

\* fbmm_wrapper.c line 39: the mount directory, argv[1]; the result of
\* fprintf is not looked at
Fbmm_Write ==
    /\ WrapperRunning("fbmm_wrapper")
    /\ wpc = "write"
    /\ \E text \in {Format_s(WArg(1))} :
         \E bs \in Allocated(wfile, text) :
           \E calls \in WrittenThrough(wfile, text, bs) :
             /\ wfile' = Buffered(wfile, text, bs, calls)
             /\ wwrites' = wwrites \o calls
    /\ wpc' = "close"
    /\ UNCHANGED <<bvars, wname, wargv, wpid, werr, wrc, wimage>>

\* fbmm_wrapper.c line 41: what is buffered is written and the stream is
\* closed; the result of fclose is not looked at
Fbmm_Close ==
    /\ WrapperRunning("fbmm_wrapper")
    /\ wpc = "close"
    /\ \E calls \in Flushed(wfile) : wwrites' = wwrites \o calls
    /\ wfile' = Closed(wfile)
    /\ wpc' = "exec"
    /\ UNCHANGED <<bvars, wname, wargv, wpid, werr, wrc, wimage>>

\* fbmm_wrapper.c lines 44-49: execv(argv[2], &argv[2]); when it fails main
\* prints a message and returns 0
Fbmm_Exec ==
    /\ WrapperRunning("fbmm_wrapper")
    /\ wpc = "exec"
    /\ \/ Replaced(WArg(2), WArgsFrom(2)) /\ UNCHANGED <<werr, wrc>>
       \/ WrapperFails("Failed to execute", WArg(2), 0) /\ UNCHANGED wimage
    /\ UNCHANGED <<bvars, wname, wargv, wpid, wfile, wwrites>>

\* fom_wrapper.c lines 14-17
Fom_Usage ==
    /\ WrapperRunning("fom_wrapper")
    /\ wpc = "start"
    /\ wargc < 2
    /\ WrapperFails("Usage: fom_wrapper <program> [args..]", <<>>, 0 - 1)
    /\ UNCHANGED <<bvars, wname, wargv, wpid, wfile, wwrites, wimage>>

\* fom_wrapper.c lines 19-27: the file /sys/kernel/mm/fom/pid is opened
Fom_Open ==
    /\ WrapperRunning("fom_wrapper")
    /\ wpc = "start"
    /\ ~(wargc < 2)
    /\ \E f \in FopenResults(fom_pid_filename) :
         /\ wfile' = f
         /\ IF f = NoFile
            THEN WrapperFails("Could not open", fom_pid_filename, 0 - 1)
            ELSE wpc' = "write" /\ UNCHANGED <<werr, wrc>>
    /\ UNCHANGED <<bvars, wname, wargv, wpid, wwrites, wimage>>

\* a slip: the target is executed with the stream still open, its buffer
\* not yet written
Fom_Write_ThenExec ==
    /\ WrapperRunning("fom_wrapper")
    /\ wpc = "write"
    /\ \E text \in {Format_d(wpid)} :
         \E bs \in Allocated(wfile, text) :
           \E calls \in WrittenThrough(wfile, text, bs) :
             /\ wfile' = Buffered(wfile, text, bs, calls)
             /\ wwrites' = wwrites \o calls
    /\ wpc' = "exec"
    /\ UNCHANGED <<bvars, wname, wargv, wpid, werr, wrc, wimage>>

\* fom_wrapper.c line 28: the process id; the result of fprintf is not
\* looked at
Fom_Write ==
    /\ WrapperRunning("fom_wrapper")
    /\ wpc = "write"
    /\ \E text \in {Format_d(wpid)} :
         \E bs \in Allocated(wfile, text) :
           \E calls \in WrittenThrough(wfile, text, bs) :
             /\ wfile' = Buffered(wfile, text, bs, calls)
             /\ wwrites' = wwrites \o calls
    /\ wpc' = "close"
    /\ UNCHANGED <<bvars, wname, wargv, wpid, werr, wrc, wimage>>

\* fom_wrapper.c line 30: what is buffered is written and the stream is
\* closed; the result of fclose is not looked at
Fom_Close ==
    /\ WrapperRunning("fom_wrapper")
    /\ wpc = "close"
    /\ \E calls \in Flushed(wfile) : wwrites' = wwrites \o calls
    /\ wfile' = Closed(wfile)
    /\ wpc' = "exec"
    /\ UNCHANGED <<bvars, wname, wargv, wpid, werr, wrc, wimage>>

\* fom_wrapper.c lines 33-38: execv(argv[1], &argv[1]); when it fails main
\* prints a message and returns -1
Fom_Exec ==
    /\ WrapperRunning("fom_wrapper")
    /\ wpc = "exec"
    /\ \/ Replaced(WArg(1), WArgsFrom(1)) /\ UNCHANGED <<werr, wrc>>
       \/ WrapperFails("Failed to execute", WArg(1), 0 - 1) /\ UNCHANGED wimage
    /\ UNCHANGED <<bvars, wname, wargv, wpid, wfile, wwrites>>

\* alloc_test does not run
NoBenchmark ==
    /\ argv = <<>>
    /\ pc = "none"
    /\ size = Zero64
    /\ num_allocations = FromNat(1)
    /\ num_threads = FromNat(1)
    /\ flags = {"MAP_ANONYMOUS", "MAP_PRIVATE"}
    /\ begin = 0
    /\ ci = 0
    /\ addr = <<>>
    /\ threads = <<>>
    /\ thr = <<>>
    /\ total_map_time = NoCycles
    /\ total_unmap_time = NoCycles
    /\ mapped = {}
    /\ ncfail = 0
    /\ freed = <<>>
    /\ out = <<>>
    /\ rc = <<>>
    /\ join_time = <<>>
    /\ nulls = {}

\* a wrapper has been started
WrapperInit ==
    /\ wname \in WrapperNames
    /\ wargv \in WrapperArgVectors(wname)
    /\ wpc = "start"
    /\ wpid \in Pids
    /\ wfile = NoFile
    /\ wwrites = <<>>
    /\ werr = <<>>
    /\ wrc = <<>>
    /\ wimage = <<>>
    /\ NoBenchmark

WrapperNext ==
    \/ Fbmm_Usage
    \/ Fbmm_Malloc
    \/ Fbmm_Open
    \/ Fbmm_Write
    \/ Fbmm_Close
    \/ Fbmm_Exec
    \/ Fom_Usage
    \/ Fom_Open
    \/ Fom_Write
    \/ Fom_Close
    \/ Fom_Exec

WrapperSpec == WrapperInit /\ [][WrapperNext]_vars

(* ---------------------------- specification ---------------------------- *)
Next ==
    \/ Main_Usage
    \/ Main_ParseArgs
    \/ Main_Alloc
    \/ Main_MapCreate
    \/ Main_MapOpen
    \/ Main_MapJoin
    \/ Main_MapTotal
    \/ Main_GateReset
    \/ Main_UnmapCreate
    \/ Main_UnmapOpen
    \/ Main_UnmapJoin
    \/ Main_UnmapTotal
    \/ Main_FreeBook
    \/ Main_Return
    \/ \E t \in 0..(MaxThreads - 1) : map_thread(t)
    \/ \E t \in 0..(MaxThreads - 1) : unmap_thread(t)

Spec == Init /\ [][Next]_vars

\* a step of main
MainStep ==
    \/ Main_Usage
    \/ Main_ParseArgs
    \/ Main_Alloc
    \/ Main_MapCreate
    \/ Main_MapOpen
    \/ Main_MapJoin
    \/ Main_MapTotal
    \/ Main_GateReset
    \/ Main_UnmapCreate
    \/ Main_UnmapOpen
    \/ Main_UnmapJoin
    \/ Main_UnmapTotal
    \/ Main_FreeBook
    \/ Main_Return

\* the scheduler is fair: main and every worker are threads that never
\* block anywhere but in pthread_join, and a thread that can run is
\* eventually run; a worker spinning at line 28 or 48 reads the volatile
\* begin again on every turn
FairSpec ==
    /\ Spec
    /\ WF_vars(MainStep)
    /\ \A t \in 0..(MaxThreads - 1) :
         WF_vars(map_thread(t)) /\ WF_vars(unmap_thread(t))

(* ------------------------------ properties ----------------------------- *)
MapIds == {id \in DOMAIN thr : id[1] = "map"}
UnmapIds == {id \in DOMAIN thr : id[1] = "unmap"}

Spawned(id) == thr[id].pc # "none"

\* the worker has read the gate open and is at, or past, its timed loop
LeftGate(id) == thr[id].pc \in {"loop", "exit", "joined"}

\* the thread is gone: it never existed, or main has joined it
Gone(id) == thr[id].pc \in {"none", "joined"}

\* the operations a set of workers has performed
AllOps(S) == {<<id, k>> \in S \X (1..MaxAllocs) : k <= Len(thr[id].ops)}

\* main has left the loop that creates the workers of the phase
SpawnDone(phase) ==
    IF phase = "map" THEN pc \notin {"start", "alloc", "map_create"}
    ELSE pc \in {"unmap_join", "free", "exited", "crashed"}

\* main has printed the total of the phase
Reported(text) == \E k \in 1..Len(out) : out[k].text = text

\* main returned 0
Finished == pc = "exited" /\ rc = <<0>>

\* C1: no unmap worker performs an unmap operation or reads a slot until
\* every map worker has been joined, and every slot of the book it reads has
\* by then been written by the map worker of that book.
C1_PhaseOrdering ==
    \A u \in UnmapIds :
        LeftGate(u) =>
            /\ \A m \in MapIds : Gone(m)
            /\ \A i \in DOMAIN addr[thr[u].ptr] : addr[thr[u].ptr][i].set

\* C2: in each phase no worker leaves its busy-wait on begin before main has
\* finished creating all workers of that phase; an unmap worker never sees
\* the gate still open from the map phase.
C2_GateRelease ==
    \A id \in DOMAIN thr : LeftGate(id) => SpawnDone(id[1])

C2_Witness ==
    /\ num_threads = FromNat(2)
    /\ \A id \in UnmapIds : thr[id].pc = "loop" /\ thr[id].i >= 1

\* C3: in a run with no failed map operation, every address produced by the
\* map operation at slot (t, i) is passed to exactly one unmap operation,
\* the one at slot (t, i), and no slot is unmapped more than once.
C3_EachAddressUnmappedOnce ==
    (Finished /\ \A o \in AllOps(MapIds) : thr[o[1]].ops[o[2]].h # MAP_FAILED) =>
        /\ \A o \in AllOps(MapIds) :
             LET made == thr[o[1]].ops[o[2]]
                 uses == {x \in AllOps(UnmapIds) :
                            thr[x[1]].ops[x[2]].h = made.h}
             IN  /\ Cardinality(uses) = 1
                 /\ \A x \in uses : /\ x[1][2] = o[1][2]
                                    /\ thr[x[1]].ops[x[2]].i = made.i
        /\ \A x, y \in AllOps(UnmapIds) :
             (x[1] = y[1] /\ thr[x[1]].ops[x[2]].i = thr[y[1]].ops[y[2]].i)
                 => x = y

\* C4: when the run finishes, the map operations attempted number
\* thread_count * operations_per_thread, and so do the unmap operations.
C4_AllOperationsAttempted ==
    Finished =>
        /\ Cardinality(AllOps(MapIds)) = ToNat(num_threads) * ToNat(num_allocations)
        /\ Cardinality(AllOps(UnmapIds)) = ToNat(num_threads) * ToNat(num_allocations)

\* thread_count * operations_per_thread
Units == ToNat(num_threads) * ToNat(num_allocations)

\* C5: each map operation requests
\* size / (thread_count * operations_per_thread) bytes, so that the requests
\* of the phase add up to size but for the remainder of the division.
C5_SizeIsDivided ==
    \A o \in AllOps(MapIds) :
        LET len == thr[o[1]].ops[o[2]].len
        IN  /\ ~MulAddOverflows(len, Units, 0)
            /\ Geq64(size, MulAdd64(len, Units, 0))
            /\ Lt64(Sub64(size, MulAdd64(len, Units, 0)), FromNat(Units))

\* the sum of the accumulators of a set of workers
RECURSIVE SumTimes(_)
SumTimes(S) ==
    IF S = {} THEN NoCycles
    ELSE LET x == CHOOSE x \in S : TRUE
         IN  Plus(thr[x].time, SumTimes(S \ {x}))

MapJoinDone == pc \in {"unmap_reset", "unmap_create", "unmap_join", "free"} \/ Finished
UnmapJoinDone == pc = "free" \/ Finished

\* C6: the accumulator a worker returns is the sum of the cycle deltas of its
\* operations, counted from zero, and the total of a phase is the 64-bit sum
\* of the accumulators its workers returned, whatever the values read in the
\* run are.
C6_AccumulatorIsSumOfDeltas ==
    /\ \A id \in DOMAIN thr :
         thr[id].pc \in {"exit", "joined"} => thr[id].time = thr[id].cyc
    /\ MapJoinDone =>
         total_map_time = SumTimes({m \in MapIds : thr[m].pc = "joined"})
    /\ UnmapJoinDone =>
         total_unmap_time = SumTimes({u \in UnmapIds : thr[u].pc = "joined"})

\* the values one run meets for its unknowns: 2^64 - 80 in every object that
\* was not initialized, 1040 cycles around every operation
Met(u) == IF u[1] = "uninit" THEN Neg64(FromNat(80)) ELSE FromNat(1040)

\* the 64-bit value of a count of cycles in that run
RECURSIVE ValueOf(_)
ValueOf(q) ==
    IF q = EmptyBag THEN Zero64
    ELSE LET u == CHOOSE u \in BagToSet(q) : TRUE
         IN  Add64(Met(u), ValueOf(q (-) SetToBag({u})))

\* C7: a reported phase total is never below the accumulator returned by any
\* single worker of that phase, as 64-bit values; read in the runs whose
\* unknowns have the values of Met.
C7_TotalAtLeastEachWorker ==
    /\ MapJoinDone =>
         \A m \in MapIds :
             thr[m].pc = "joined" =>
                 Geq64(ValueOf(total_map_time), ValueOf(thr[m].time))
    /\ UnmapJoinDone =>
         \A u \in UnmapIds :
             thr[u].pc = "joined" =>
                 Geq64(ValueOf(total_unmap_time), ValueOf(thr[u].time))

\* C8: no Address Book is used by two threads that are alive at the same
\* time: worker t is handed book t only, and the unmap worker of book t is
\* created only after the map worker of book t has been joined.
C8_BooksAreDisjoint ==
    /\ \A a, b \in DOMAIN thr :
         (a # b /\ Alive(a) /\ Alive(b)) => thr[a].ptr # thr[b].ptr
    /\ \A id \in DOMAIN thr : Spawned(id) => thr[id].ptr = id[2]
    /\ \A u \in UnmapIds : Spawned(u) => Gone(<<"map", u[2]>>)

C8_Witness ==
    /\ num_threads = FromNat(2)
    /\ \A id \in MapIds : thr[id].pc = "loop" /\ thr[id].i >= 1

\* a pthread_create of the phase has failed
MapCreateFailed ==
    \E t \in DOMAIN threads :
        /\ thr[<<"map", t>>].pc = "none"
        /\ (pc = "map_create" /\ t < ci) \/ SpawnDone("map")

UnmapCreateFailed ==
    \E t \in DOMAIN threads :
        /\ thr[<<"unmap", t>>].pc = "none"
        /\ (pc = "unmap_create" /\ t < ci) \/ pc \in {"unmap_join", "free"} \/ Finished

\* C9: when a pthread_create fails the run aborts: main does not open the
\* gate of that phase, joins nobody and prints no total for it.
C9_CreateFailureIsFatal ==
    /\ MapCreateFailed =>
         /\ begin = 0
         /\ pc \notin {"map_join", "unmap_reset", "unmap_create", "unmap_join", "free"}
         /\ ~Reported("Total map time")
         /\ ~Finished
    /\ UnmapCreateFailed =>
         /\ begin = 0
         /\ pc \notin {"unmap_join", "free"}
         /\ ~Reported("Total unmap time")
         /\ ~Finished

\* the configuration gives every operation a share of zero
ZeroShare ==
    /\ pc # "start"
    /\ argc >= 2
    /\ size = Zero64 \/ num_allocations = Zero64 \/ num_threads = Zero64

\* C10: a configuration with a zero share (size 0, operation count 0 or
\* thread count 0) is rejected before any worker is created and before any
\* map operation is attempted.
C10_ZeroShareRejected ==
    ZeroShare =>
        /\ \A id \in DOMAIN thr : ~Spawned(id)
        /\ AllOps(MapIds) = {}
        /\ ~Finished

\* a worker's log is over the indices 0, 1, ... in order, each once
InIndexOrder(id) ==
    \A k \in 1..Len(thr[id].ops) : thr[id].ops[k].i = k - 1

\* the worker has left its loop
Returned(id) == thr[id].pc \in {"exit", "joined"}

\* the sum of the readings of a worker's operations
RECURSIVE LogSum(_)
LogSum(ops) ==
    IF ops = <<>> THEN NoCycles
    ELSE Plus(LogSum(SubSeq(ops, 1, Len(ops) - 1)), ops[Len(ops)].d)

\* C11: a failed map operation leaves the sentinel MAP_FAILED in its slot and
\* its elapsed cycles are added to the accumulator like those of any other
\* attempt: the accumulator is what it held when the worker started plus
\* the reading of every attempt, whatever these values are; the worker
\* neither retries nor stops: its attempts are at the indices 0, 1, ...
\* each once, and when it returns it has attempted every slot and returns
\* the accumulator.
C11_FailedMapIsCountedAndPassed ==
    \A m \in MapIds :
        LET w == thr[m]
        IN  /\ InIndexOrder(m)
            /\ \A k \in 1..Len(w.ops) :
                 w.ops[k].h = MAP_FAILED =>
                     addr[w.ptr][k - 1] = [set |-> TRUE, val |-> MAP_FAILED]
            /\ Spawned(m) =>
                 w.time = Plus(Uninit64(m, AccumulatorLine("map")), LogSum(w.ops))
            /\ Returned(m) => Len(w.ops) = ToNat(num_allocations)

\* a worker has returned after a failed attempt at slot 0 of a non-empty
\* request and a later attempt at slot 1 that succeeded
C11_Witness ==
    \E m \in MapIds :
        /\ Returned(m)
        /\ size # Zero64
        /\ Len(thr[m].ops) = 2
        /\ thr[m].ops[1].h = MAP_FAILED
        /\ thr[m].ops[2].h # MAP_FAILED

\* C12, as claimed: in the unmap phase a slot holding the sentinel
\* MAP_FAILED is skipped, so that no munmap is issued for the sentinel, and
\* the worker goes on with its remaining slots without retry or abort.
C12_SentinelIsSkipped ==
    \A u \in UnmapIds :
        /\ \A k \in 1..Len(thr[u].ops) : thr[u].ops[k].h # MAP_FAILED
        /\ InIndexOrder(u)
        /\ Returned(u) =>
             \A i \in 0..(ToNat(num_allocations) - 1) :
                 (addr[thr[u].ptr][i].set /\ addr[thr[u].ptr][i].val # MAP_FAILED)
                     => \E k \in 1..Len(thr[u].ops) : thr[u].ops[k].i = i

\* C12, amended: a slot holding MAP_FAILED is not skipped: the unmap worker
\* issues munmap for every slot in index order with the value the slot
\* holds, the sentinel included; the call on the sentinel releases nothing,
\* its cycles are added like any other (the accumulator is what it held
\* when the worker started plus the reading of every munmap, whatever
\* these values are), and the worker returns after one munmap per slot,
\* without retry or abort.
C12_SentinelIsPassedToMunmap ==
    /\ MAP_FAILED \notin mapped
    /\ \A u \in UnmapIds :
         LET w == thr[u]
         IN  /\ InIndexOrder(u)
             /\ \A k \in 1..Len(w.ops) :
                  addr[w.ptr][k - 1].set => w.ops[k].h = addr[w.ptr][k - 1].val
             /\ Spawned(u) =>
                  w.time = Plus(Uninit64(u, AccumulatorLine("unmap")), LogSum(w.ops))
             /\ Returned(u) => Len(w.ops) = ToNat(num_allocations)

\* an unmap worker has returned after a munmap of the sentinel left at slot 0
\* by a failed map of a non-empty request, and a munmap of the region of
\* slot 1
C12_Witness ==
    \E u \in UnmapIds :
        /\ Returned(u)
        /\ size # Zero64
        /\ Len(thr[u].ops) = 2
        /\ addr[thr[u].ptr][0] = [set |-> TRUE, val |-> MAP_FAILED]
        /\ thr[u].ops[1].h = MAP_FAILED
        /\ addr[thr[u].ptr][1].set
        /\ thr[u].ops[2].h > 0

\* C13: when the size argument is missing the run is a fatal usage error:
\* the message is written to standard error, the process exits with a
\* non-zero status, no worker is created and no Address Book is allocated.
C13_UsageErrorOnStderr ==
    (argc < 2 /\ pc # "start") =>
        /\ pc = "exited"
        /\ rc # <<>> /\ rc[1] # 0
        /\ \E k \in 1..Len(out) :
             /\ out[k].text = "Missing size in number of pages"
             /\ out[k].fd = "stderr"
        /\ thr = <<>> /\ threads = <<>>
        /\ addr = <<>>

\* every worker of both phases was created, ran all its operations and has
\* been joined; main printed both totals and returned 0
AllDone ==
    /\ Finished
    /\ Reported("Total map time") /\ Reported("Total unmap time")
    /\ DOMAIN thr = {"map", "unmap"} \X (0..(ToNat(num_threads) - 1))
    /\ \A id \in DOMAIN thr :
         /\ thr[id].pc = "joined"
         /\ Len(thr[id].ops) = ToNat(num_allocations)

\* C14: in a run given its size argument in which every pthread_create
\* succeeds, under fair scheduling, every worker eventually sees the gate
\* open, performs its operations and is joined, and main eventually prints
\* both totals and exits: no worker is left spinning on the gate.
C14_Termination ==
    <>(argc < 2 \/ ncfail > 0 \/ AllDone)

\* main's position, as a number that grows along main
Rank(p) ==
    CASE p = "start" -> 0
      [] p = "alloc" -> 1
      [] p = "map_create" -> 2
      [] p = "map_join" -> 3
      [] p = "unmap_reset" -> 4
      [] p = "unmap_create" -> 5
      [] p = "unmap_join" -> 6
      [] p = "free" -> 7
      [] OTHER -> 8

\* what a step may do to the gate
GateStep ==
    /\ pc' # pc => Rank(pc') > Rank(pc)
    /\ begin' # begin => pc' # pc /\ thr' = thr
    /\ (begin = 0 /\ begin' # 0) =>
         \/ pc = "map_create" /\ pc' = "map_join"
         \/ pc = "unmap_create" /\ pc' = "unmap_join"
    /\ (begin # 0 /\ begin' = 0) =>
         /\ pc = "unmap_reset"
         /\ \A id \in DOMAIN thr : Gone(id)
    /\ (begin # 0 /\ \E id \in DOMAIN thr : ~Gone(id)) => begin' # 0

\* C15: the gate is one-shot per phase. Only main writes begin (a step that
\* changes it is a step of main, and no worker moves in it); main opens it
\* once per phase, when it leaves the creation loop of the phase, and main
\* never goes back; once open it stays open while a worker is not yet
\* joined, and it is closed again only when no worker thread is alive.
C15_GateOneShot == [][GateStep]_vars

\* main has closed the gate between the phases after joining two map workers
C15_Witness ==
    /\ pc = "unmap_create"
    /\ begin = 0
    /\ Cardinality(MapIds) = 2
    /\ \A m \in MapIds : thr[m].pc = "joined" /\ thr[m].ops # <<>>

\* how many times a heap object was freed
TimesFreed(x) == Cardinality({k \in 1..Len(freed) : freed[k] = x})

\* C16: main frees the Address Books only after every unmap worker has been
\* joined: while anything is freed no worker is left that could read or
\* write a slot; no book and no array of books is freed twice, and when
\* main returns every book and the array of books have been freed once.
C16_FreeAfterJoin ==
    /\ freed # <<>> => \A id \in DOMAIN thr : Gone(id)
    /\ \A k \in 1..Len(freed) : TimesFreed(freed[k]) = 1
    /\ Finished =>
         /\ \A t \in 0..(ToNat(num_threads) - 1) : TimesFreed(<<"book", t>>) = 1
         /\ TimesFreed(<<"addr", 0>>) = 1
         /\ Len(freed) = ToNat(num_threads) + 1

\* two books have been freed after their unmap workers ran and were joined
C16_Witness ==
    /\ Len(freed) = 2
    /\ Cardinality(UnmapIds) = 2
    /\ \A u \in UnmapIds : thr[u].pc = "joined" /\ thr[u].ops # <<>>

\* C17: within one worker the operations on its book are in index order
\* 0, 1, ..., N - 1 in both phases: the k-th operation of a worker is at
\* index k - 1, the worker's loop index is the number of operations it has
\* done, no index is at or over num_allocations, and a worker that has
\* returned has visited each of the N indices once.
C17_IndexOrder ==
    \A id \in DOMAIN thr :
        LET w == thr[id]
        IN  /\ \A k \in 1..Len(w.ops) :
                 /\ w.ops[k].i = k - 1
                 /\ Below(w.ops[k].i, num_allocations)
            /\ w.pc \in {"loop", "exit", "joined"} => w.i = Len(w.ops)
            /\ Returned(id) =>
                 \A i \in 0..(ToNat(num_allocations) - 1) :
                     Cardinality({k \in 1..Len(w.ops) : w.ops[k].i = i}) = 1

\* a map worker and an unmap worker of the same book have each gone through
\* two indices
C17_Witness ==
    \E t \in 0..(MaxThreads - 1) :
        /\ <<"map", t>> \in DOMAIN thr /\ <<"unmap", t>> \in DOMAIN thr
        /\ Returned(<<"map", t>>) /\ Len(thr[<<"map", t>>].ops) = 2
        /\ Returned(<<"unmap", t>>) /\ Len(thr[<<"unmap", t>>].ops) = 2

\* the configuration the arguments give, but for size
ConfigSet ==
    /\ num_allocations = IF argc >= 3 THEN strtoul(Arg(2)) ELSE FromNat(1)
    /\ num_threads = IF argc >= 4 THEN strtoul(Arg(3)) ELSE FromNat(1)
    /\ flags = {"MAP_ANONYMOUS", "MAP_PRIVATE"}
                 \cup (IF argc >= 5 THEN {"MAP_HUGETLB"} ELSE {})

\* the configuration is set when main is past line 82, and no worker exists
\* before that
ConfigBeforeWorkers ==
    /\ (argc >= 2 /\ pc # "start") => ConfigSet
    /\ pc = "alloc" => size = Shl64(strtoul(Arg(1)), PAGE_SHIFT)
    /\ (\E id \in DOMAIN thr : Spawned(id)) => pc \notin {"start", "alloc"}

\* C18: the configuration (size, num_allocations, num_threads, flags) is
\* fully set from the arguments before the first worker is created, and no
\* later step, of main or of a worker, changes any of the four.
C18_ConfigFrozen ==
    /\ []ConfigBeforeWorkers
    /\ [][pc # "start" =>
            UNCHANGED <<size, num_allocations, num_threads, flags>>]_vars

\* an unmap worker is at work under a configuration that has all four
\* arguments, with a size that is not 0
C18_Witness ==
    /\ argc = 5
    /\ size # Zero64
    /\ "MAP_HUGETLB" \in flags
    /\ num_threads = FromNat(2)
    /\ \E u \in UnmapIds : thr[u].pc = "loop" /\ thr[u].ops # <<>>

\* the wrapper was given the arguments it needs
EnoughArgs == wargc >= (IF wname = "fbmm_wrapper" THEN 3 ELSE 2)

\* what the wrapper owes the kernel before the target runs: the mount
\* directory to /proc/<pid>/fbmm_mnt_dir, or the process id to
\* /sys/kernel/mm/fom/pid
Registration ==
    IF wname = "fbmm_wrapper"
    THEN [path |-> FbmmPidFilename(wpid), data |-> WArg(1)]
    ELSE [path |-> fom_pid_filename, data |-> Numeral(wpid)]

\* the program the wrapper is to execute, with its arguments
Target ==
    IF wname = "fbmm_wrapper"
    THEN [path |-> WArg(2), argv |-> WArgsFrom(2)]
    ELSE [path |-> WArg(1), argv |-> WArgsFrom(1)]

C20_ExecFailureIsNonZero ==
    (wpc = "exited" /\ wfile # NoFile) =>
        /\ \E k \in 1..Len(werr) : werr[k].text = "Failed to execute"
        /\ wrc # <<>> /\ wrc[1] # 0

====
